---- MODULE Spec2Model ----
(***************************************************************************)
(* Model of src/plot.py: a dict literal `params` of 15 matplotlib style    *)
(* settings, merged into matplotlib's global rcParams at import time by    *)
(* rcParams.update(params).                                                *)
(*                                                                         *)
(* rcParams is a matplotlib RcParams object: a mapping with a fixed key    *)
(* set whose __setitem__ rejects unknown keys (KeyError) and stores the    *)
(* value returned by the key's validator, and whose update() calls         *)
(* __setitem__ once per key of its argument, in the argument's order.      *)
(***************************************************************************)
EXTENDS Integers, Sequences, FiniteSets, TLC

VARIABLES pc, params, rcParams, validKeys, pre, written, exc, nConstruct, nUpdate

vars == <<pc, params, rcParams, validKeys, pre, written, exc, nConstruct, nUpdate>>

(***************************************************************************)
(* Bounds of the model.                                                    *)
(***************************************************************************)
\* at most this many keys of the pre-load rcParams differ from the defaults
MaxPerturbed == 2
\* at most this many keys of params are unknown to the installed library
MaxMissing == 1

(***************************************************************************)
(* Python values.  A float is a fraction <<numerator, denominator>>.       *)
(***************************************************************************)
PyStr(s) == [t |-> "str", v |-> s]
PyBool(b) == [t |-> "bool", v |-> b]
PyInt(n) == [t |-> "int", v |-> n]
PyFloat(n, d) == [t |-> "float", v |-> <<n, d>>]
PyList(s) == [t |-> "list", v |-> s]
PyCycler(key, s) == [t |-> "cycler", v |-> <<key, s>>]

IsNum(a) == a.t \in {"int", "float", "bool"}

\* the numeric value of a Python number, as a fraction
NumOf(a) ==
  CASE a.t = "int" -> <<a.v, 1>>
    [] a.t = "float" -> a.v
    [] a.t = "bool" -> IF a.v THEN <<1, 1>> ELSE <<0, 1>>

\* Python's ==: numbers compare by value across int, float and bool;
\* everything else compares within its own type
PyEq(a, b) ==
  IF IsNum(a) /\ IsNum(b)
  THEN NumOf(a)[1] * NumOf(b)[2] = NumOf(b)[1] * NumOf(a)[2]
  ELSE a.t = b.t /\ a.v = b.v

(***************************************************************************)
(* The params literal, in source order (plot.py lines 5-27).               *)
(***************************************************************************)
CycleColors ==
  << PyStr("#348ABD"), PyStr("#A60628"), PyStr("#7A68A6"), PyStr("#467821"),
     PyStr("#CF4457"), PyStr("#188487"), PyStr("#E24A33") >>

\* mutant: the patch.edgecolor entry is written with the axes.edgecolor key
ParamsLiteralDuplicate ==
  << <<"lines.linewidth", PyFloat(2, 1)>>,
     <<"axes.edgecolor", PyStr("#bcbcbc")>>,
     <<"patch.linewidth", PyFloat(1, 2)>>,
     <<"legend.fancybox", PyBool(TRUE)>>,
     <<"axes.prop_cycle", PyCycler("color", CycleColors)>>,
     <<"axes.facecolor", PyStr("#eeeeee")>>,
     <<"axes.labelsize", PyStr("large")>>,
     <<"axes.grid", PyBool(FALSE)>>,
     <<"axes.edgecolor", PyStr("#eeeeee")>>,
     <<"axes.titlesize", PyStr("x-large")>>,
     <<"text.usetex", PyBool(TRUE)>>,
     <<"font.family", PyStr("serif")>>,
     <<"font.serif", PyList(<<>>)>>,
     <<"figure.dpi", PyInt(300)>>,
     <<"font.size", PyInt(12)>> >>

\* mutant: the colour cycle is set under its pre-1.5 name
ParamsLiteralOldName ==
  << <<"lines.linewidth", PyFloat(2, 1)>>,
     <<"axes.edgecolor", PyStr("#bcbcbc")>>,
     <<"patch.linewidth", PyFloat(1, 2)>>,
     <<"legend.fancybox", PyBool(TRUE)>>,
     <<"axes.color_cycle", PyCycler("color", CycleColors)>>,
     <<"axes.facecolor", PyStr("#eeeeee")>>,
     <<"axes.labelsize", PyStr("large")>>,
     <<"axes.grid", PyBool(FALSE)>>,
     <<"patch.edgecolor", PyStr("#eeeeee")>>,
     <<"axes.titlesize", PyStr("x-large")>>,
     <<"text.usetex", PyBool(TRUE)>>,
     <<"font.family", PyStr("serif")>>,
     <<"font.serif", PyList(<<>>)>>,
     <<"figure.dpi", PyInt(300)>>,
     <<"font.size", PyInt(12)>> >>

\* mutant: the legend entry switches the legend frame off instead
ParamsLiteralFrameon ==
  << <<"lines.linewidth", PyFloat(2, 1)>>,
     <<"axes.edgecolor", PyStr("#bcbcbc")>>,
     <<"patch.linewidth", PyFloat(1, 2)>>,
     <<"legend.frameon", PyBool(FALSE)>>,
     <<"axes.prop_cycle", PyCycler("color", CycleColors)>>,
     <<"axes.facecolor", PyStr("#eeeeee")>>,
     <<"axes.labelsize", PyStr("large")>>,
     <<"axes.grid", PyBool(FALSE)>>,
     <<"patch.edgecolor", PyStr("#eeeeee")>>,
     <<"axes.titlesize", PyStr("x-large")>>,
     <<"text.usetex", PyBool(TRUE)>>,
     <<"font.family", PyStr("serif")>>,
     <<"font.serif", PyList(<<>>)>>,
     <<"figure.dpi", PyInt(300)>>,
     <<"font.size", PyInt(12)>> >>

ParamsLiteral ==
  << <<"lines.linewidth", PyFloat(2, 1)>>,
     <<"axes.edgecolor", PyStr("#bcbcbc")>>,
     <<"patch.linewidth", PyFloat(1, 2)>>,
     <<"legend.fancybox", PyBool(TRUE)>>,
     <<"axes.prop_cycle", PyCycler("color", CycleColors)>>,
     <<"axes.facecolor", PyStr("#eeeeee")>>,
     <<"axes.labelsize", PyStr("large")>>,
     <<"axes.grid", PyBool(FALSE)>>,
     <<"patch.edgecolor", PyStr("#eeeeee")>>,
     <<"axes.titlesize", PyStr("x-large")>>,
     <<"text.usetex", PyBool(TRUE)>>,
     <<"font.family", PyStr("serif")>>,
     <<"font.serif", PyList(<<>>)>>,
     <<"figure.dpi", PyInt(300)>>,
     <<"font.size", PyInt(12)>> >>

(***************************************************************************)
(* A Python dict: the keys in insertion order, and the mapping.  A dict    *)
(* display evaluates its items left to right; a repeated key keeps its     *)
(* first position and takes the last value.                                *)
(***************************************************************************)
EmptyDict == [order |-> <<>>, map |-> <<>>]

Keys(d) == {d.order[i] : i \in 1..Len(d.order)}

DictSet(d, k, val) ==
  IF k \in Keys(d)
  THEN [order |-> d.order,
        map |-> [x \in Keys(d) |-> IF x = k THEN val ELSE d.map[x]]]
  ELSE [order |-> Append(d.order, k),
        map |-> [x \in Keys(d) \cup {k} |-> IF x = k THEN val ELSE d.map[x]]]

RECURSIVE DictDisplay(_, _)
DictDisplay(items, n) ==
  IF n = 0 THEN EmptyDict
  ELSE DictSet(DictDisplay(items, n - 1), items[n][1], items[n][2])

DictOf(items) == DictDisplay(items, Len(items))

(***************************************************************************)
(* matplotlib's style registry, as far as plot.py meets it: the 15 keys of *)
(* params and two keys plot.py never names.  Every key has a validator     *)
(* that converts the value it is given to the stored form, or rejects it.  *)
(***************************************************************************)
ParamKeys ==
  { "lines.linewidth", "axes.edgecolor", "patch.linewidth", "legend.fancybox",
    "axes.prop_cycle", "axes.facecolor", "axes.labelsize", "axes.grid",
    "patch.edgecolor", "axes.titlesize", "text.usetex", "font.family",
    "font.serif", "figure.dpi", "font.size" }

OtherKeys == { "lines.markersize", "legend.frameon" }

RegistryKeys == ParamKeys \cup OtherKeys

Validator(k) ==
  CASE k \in {"lines.linewidth", "patch.linewidth", "figure.dpi", "font.size",
              "lines.markersize"} -> "float"
    [] k \in {"axes.edgecolor", "axes.facecolor", "patch.edgecolor"} -> "color"
    [] k \in {"legend.fancybox", "axes.grid", "text.usetex", "legend.frameon"} -> "bool"
    [] k \in {"axes.labelsize", "axes.titlesize"} -> "fontsize"
    [] k \in {"font.family", "font.serif"} -> "stringlist"
    [] k = "axes.prop_cycle" -> "cycler"
    [] OTHER -> "none"

Accept(val) == [ok |-> TRUE, val |-> val]
Reject(val) == [ok |-> FALSE, val |-> val]

\* mutant: the number is truncated to a whole number
ValidateFloatTruncating(val) ==
  CASE val.t = "int" -> Accept(PyFloat(val.v, 1))
    [] val.t = "float" -> Accept(PyFloat(val.v[1] \div val.v[2], 1))
    [] OTHER -> Reject(val)

\* float(s): an int becomes the float of the same value
ValidateFloat(val) ==
  CASE val.t = "int" -> Accept(PyFloat(val.v, 1))
    [] val.t = "float" -> Accept(val)
    [] val.t = "bool" -> Accept(PyFloat(IF val.v THEN 1 ELSE 0, 1))
    [] OTHER -> Reject(val)

ValidateBool(val) ==
  CASE val.t = "bool" -> Accept(val)
    [] val.t = "str" /\ val.v \in {"t", "y", "yes", "on", "true", "1"} -> Accept(PyBool(TRUE))
    [] val.t = "str" /\ val.v \in {"f", "n", "no", "off", "false", "0"} -> Accept(PyBool(FALSE))
    [] val.t = "int" /\ val.v \in {0, 1} -> Accept(PyBool(val.v = 1))
    [] OTHER -> Reject(val)

ColorNames ==
  { "black", "white", "#bcbcbc", "#eeeeee", "#348ABD", "#A60628", "#7A68A6",
    "#467821", "#CF4457", "#188487", "#E24A33", "#1f77b4", "#ff7f0e" }

IsColor(val) == val.t = "str" /\ val.v \in ColorNames

\* a colour string is stored as given
ValidateColor(val) == IF IsColor(val) THEN Accept(val) ELSE Reject(val)

FontSizeNames ==
  { "xx-small", "x-small", "small", "medium", "large", "x-large", "xx-large",
    "smaller", "larger" }

\* a named size is stored as given, anything else as a float
ValidateFontsize(val) ==
  IF val.t = "str" /\ val.v \in FontSizeNames THEN Accept(val) ELSE ValidateFloat(val)

\* a string becomes the list of its comma-separated parts (one part here:
\* none of the strings of the model holds a comma); a list stays a list
ValidateStringlist(val) ==
  CASE val.t = "str" -> Accept(PyList(<<val>>))
    [] val.t = "list" /\ (\A i \in 1..Len(val.v) : val.v[i].t = "str") -> Accept(val)
    [] OTHER -> Reject(val)

\* a cycler over a known property whose values all validate is stored
ValidateCycler(val) ==
  IF /\ val.t = "cycler"
     /\ val.v[1] = "color"
     /\ \A i \in 1..Len(val.v[2]) : IsColor(val.v[2][i])
  THEN Accept(val) ELSE Reject(val)

Validate(k, val) ==
  CASE Validator(k) = "float" -> ValidateFloat(val)
    [] Validator(k) = "color" -> ValidateColor(val)
    [] Validator(k) = "bool" -> ValidateBool(val)
    [] Validator(k) = "fontsize" -> ValidateFontsize(val)
    [] Validator(k) = "stringlist" -> ValidateStringlist(val)
    [] Validator(k) = "cycler" -> ValidateCycler(val)
    [] OTHER -> Reject(val)

\* matplotlib's default style
RcDefault ==
  [k \in RegistryKeys |->
    CASE k = "lines.linewidth" -> PyFloat(3, 2)
      [] k = "axes.edgecolor" -> PyStr("black")
      [] k = "patch.linewidth" -> PyFloat(1, 1)
      [] k = "legend.fancybox" -> PyBool(TRUE)
      [] k = "axes.prop_cycle" -> PyCycler("color", <<PyStr("#1f77b4"), PyStr("#ff7f0e")>>)
      [] k = "axes.facecolor" -> PyStr("white")
      [] k = "axes.labelsize" -> PyStr("medium")
      [] k = "axes.grid" -> PyBool(FALSE)
      [] k = "patch.edgecolor" -> PyStr("black")
      [] k = "axes.titlesize" -> PyStr("large")
      [] k = "text.usetex" -> PyBool(FALSE)
      [] k = "font.family" -> PyList(<<PyStr("sans-serif")>>)
      [] k = "font.serif" -> PyList(<<PyStr("DejaVu Serif"), PyStr("Times New Roman")>>)
      [] k = "figure.dpi" -> PyFloat(100, 1)
      [] k = "font.size" -> PyFloat(10, 1)
      [] k = "lines.markersize" -> PyFloat(6, 1)
      [] k = "legend.frameon" -> PyBool(TRUE)]

\* a value a program may have stored under k before plot.py is imported
RcOther ==
  [k \in RegistryKeys |->
    CASE k = "lines.linewidth" -> PyFloat(2, 1)
      [] k = "axes.edgecolor" -> PyStr("white")
      [] k = "patch.linewidth" -> PyFloat(3, 1)
      [] k = "legend.fancybox" -> PyBool(FALSE)
      [] k = "axes.prop_cycle" -> PyCycler("color", <<PyStr("black")>>)
      [] k = "axes.facecolor" -> PyStr("#eeeeee")
      [] k = "axes.labelsize" -> PyStr("small")
      [] k = "axes.grid" -> PyBool(TRUE)
      [] k = "patch.edgecolor" -> PyStr("white")
      [] k = "axes.titlesize" -> PyStr("x-large")
      [] k = "text.usetex" -> PyBool(TRUE)
      [] k = "font.family" -> PyList(<<PyStr("monospace")>>)
      [] k = "font.serif" -> PyList(<<PyStr("Palatino")>>)
      [] k = "figure.dpi" -> PyFloat(72, 1)
      [] k = "font.size" -> PyFloat(12, 1)
      [] k = "lines.markersize" -> PyFloat(10, 1)
      [] k = "legend.frameon" -> PyBool(FALSE)]

(***************************************************************************)
(* RcParams.__setitem__ and RcParams.update.  A result carries the mapping *)
(* and the exception raised ("None" when none is).                         *)
(***************************************************************************)
\* mutant: a list-valued setting is extended instead of replaced
RcSetItemExtend(rc, valid, k, val) ==
  IF k \notin valid THEN [rc |-> rc, exc |-> "KeyError"]
  ELSE LET r == Validate(k, val) IN
       IF ~r.ok THEN [rc |-> rc, exc |-> "ValueError"]
       ELSE IF r.val.t = "list"
            THEN [rc |-> [rc EXCEPT ![k] = PyList(rc[k].v \o r.val.v)], exc |-> "None"]
            ELSE [rc |-> [rc EXCEPT ![k] = r.val], exc |-> "None"]

\* mutant: a setting the program has already customised is left as it is
RcSetItemKeep(rc, valid, k, val) ==
  IF k \notin valid THEN [rc |-> rc, exc |-> "KeyError"]
  ELSE LET r == Validate(k, val) IN
       IF ~r.ok THEN [rc |-> rc, exc |-> "ValueError"]
       ELSE IF rc[k] # RcDefault[k]
            THEN [rc |-> rc, exc |-> "None"]
            ELSE [rc |-> [rc EXCEPT ![k] = r.val], exc |-> "None"]

\* rcParams[k] = val
RcSetItem(rc, valid, k, val) ==
  IF k \notin valid THEN [rc |-> rc, exc |-> "KeyError"]
  ELSE LET r == Validate(k, val) IN
       IF ~r.ok THEN [rc |-> rc, exc |-> "ValueError"]
       ELSE [rc |-> [rc EXCEPT ![k] = r.val], exc |-> "None"]

\* the loop of update(): the keys of d from position i on, in d's order;
\* the first exception ends it, and what was set before it stays set
RECURSIVE RcUpdateFrom(_, _, _, _, _)
RcUpdateFrom(rc, valid, d, i, wr) ==
  IF i > Len(d.order) THEN [rc |-> rc, exc |-> "None", written |-> wr]
  ELSE LET k == d.order[i]
           r == RcSetItem(rc, valid, k, d.map[k])
       IN IF r.exc # "None" THEN [rc |-> rc, exc |-> r.exc, written |-> wr]
          ELSE RcUpdateFrom(r.rc, valid, d, i + 1, wr \cup {k})

\* mutant: the style is reset to the defaults before the settings are applied
RcUpdateReplace(rc, valid, d) ==
  RcUpdateFrom([k \in DOMAIN rc |-> RcDefault[k]], valid, d, 1, {})

\* rcParams.update(d)
RcUpdate(rc, valid, d) == RcUpdateFrom(rc, valid, d, 1, {})

(***************************************************************************)
(* The states rcParams may be in when plot.py is imported.                 *)
(***************************************************************************)
\* the subsets of S of at most n elements
RECURSIVE UpTo(_, _)
UpTo(S, n) ==
  IF n = 0 THEN {{}}
  ELSE LET prev == UpTo(S, n - 1) IN prev \cup {p \cup {x} : p \in prev, x \in S}

PreStates(valid) ==
  { [k \in valid |-> IF k \in P THEN RcOther[k] ELSE RcDefault[k]] :
      P \in UpTo(valid, MaxPerturbed) }

\* the key sets of the libraries plot.py may be imported under
Libraries == { RegistryKeys \ M : M \in UpTo(ParamKeys, MaxMissing) }

(***************************************************************************)
(* The module body of plot.py, statement by statement.                     *)
(***************************************************************************)
Terminal == {"done", "raised"}

TypeOK ==
  /\ pc \in {"import", "construct", "update"} \cup Terminal
  /\ validKeys \subseteq RegistryKeys
  /\ DOMAIN rcParams = validKeys
  /\ written \subseteq validKeys
  /\ exc \in {"None", "KeyError", "ValueError"}
  /\ nConstruct \in Nat /\ nUpdate \in Nat

InitWith(libs) ==
  /\ pc = "import"
  /\ params = EmptyDict
  /\ validKeys \in libs
  /\ rcParams \in PreStates(validKeys)
  /\ pre = rcParams
  /\ written = {}
  /\ exc = "None"
  /\ nConstruct = 0
  /\ nUpdate = 0

\* matplotlib as installed: every key of the registry is known
Init == InitWith({RegistryKeys})

\* any library version: some keys of params may be unknown to it
InitAnyLib == InitWith(Libraries)

\* lines 1-3: the imports
Import ==
  /\ pc = "import"
  /\ pc' = "construct"
  /\ UNCHANGED <<params, rcParams, validKeys, pre, written, exc, nConstruct, nUpdate>>

\* lines 4-28: params = {...}
Construct ==
  /\ pc = "construct"
  /\ params' = DictOf(ParamsLiteral)
  /\ nConstruct' = nConstruct + 1
  /\ pc' = "update"
  /\ UNCHANGED <<rcParams, validKeys, pre, written, exc, nUpdate>>

\* mutant: the exception of the update is caught and dropped
AfterUpdateSwallow(e) == "done"

\* line 30 is a bare statement of the module body: an exception it raises
\* leaves the module, and nothing follows it
AfterUpdate(e) == IF e = "None" THEN "done" ELSE "raised"

\* mutant: the update statement is executed a second time
UpdateRepeated ==
  /\ pc = "update"
  /\ LET r == RcUpdate(rcParams, validKeys, params) IN
       /\ rcParams' = r.rc
       /\ written' = written \cup r.written
       /\ exc' = r.exc
       /\ pc' = IF nUpdate = 0 THEN "update" ELSE AfterUpdate(r.exc)
  /\ nUpdate' = nUpdate + 1
  /\ UNCHANGED <<params, validKeys, pre, nConstruct>>

\* line 30: rcParams.update(params)
Update ==
  /\ pc = "update"
  /\ LET r == RcUpdate(rcParams, validKeys, params) IN
       /\ rcParams' = r.rc
       /\ written' = written \cup r.written
       /\ exc' = r.exc
       /\ pc' = AfterUpdate(r.exc)
  /\ nUpdate' = nUpdate + 1
  /\ UNCHANGED <<params, validKeys, pre, nConstruct>>

Next == Import \/ Construct \/ Update

Spec == Init /\ [][Next]_vars

SpecAnyLib == InitAnyLib /\ [][Next]_vars

(***************************************************************************)
(* Properties.                                                             *)
(***************************************************************************)
Constructed == pc \in {"update"} \cup Terminal

\* C1 as stated: after the load, rcParams[k] == params[k] for every key k
\* of params.
C1_EveryValueAsConfigured ==
  pc = "done" => \A k \in Keys(params) : PyEq(rcParams[k], params.map[k])

\* C1, amended: after the load, rcParams[k] == params[k] for every key k of
\* params except font.family, which holds the one-element list ['serif']
\* rather than the string 'serif'; in particular figure.dpi is 300,
\* axes.grid is False and axes.prop_cycle is the seven colours in order.
C1_ValuesAsStored ==
  pc = "done" =>
    /\ Cardinality(Keys(params)) = 15
    /\ \A k \in Keys(params) \ {"font.family"} : PyEq(rcParams[k], params.map[k])
    /\ rcParams["font.family"] = PyList(<<PyStr("serif")>>)
    /\ PyEq(rcParams["figure.dpi"], PyInt(300))
    /\ rcParams["axes.grid"] = PyBool(FALSE)
    /\ rcParams["axes.prop_cycle"] = PyCycler("color", CycleColors)

C1_Witness ==
  /\ pc = "done"
  /\ pre["figure.dpi"] = PyFloat(72, 1)
  /\ pre["font.family"] = PyList(<<PyStr("monospace")>>)
  /\ rcParams["figure.dpi"] = PyFloat(300, 1)

\* the kind of setting a key is, in the words of the interface description
Category(k) ==
  CASE k \in {"lines.linewidth", "patch.linewidth"} -> "line width"
    [] k = "axes.prop_cycle" -> "color cycle"
    [] k \in {"axes.facecolor", "axes.edgecolor", "patch.edgecolor"} -> "background/edge color"
    [] k \in {"font.family", "font.serif", "font.size"} -> "font family and size"
    [] k = "axes.grid" -> "grid visibility"
    [] k \in {"axes.titlesize", "axes.labelsize"} -> "title/label size"
    [] k = "figure.dpi" -> "figure resolution"
    [] k = "text.usetex" -> "typesetting engine selection"
    [] k \in {"legend.fancybox", "legend.frameon"} -> "legend box"
    [] k = "lines.markersize" -> "marker size"
    [] OTHER -> "unknown"

ListedCategories ==
  { "line width", "color cycle", "background/edge color", "font family and size",
    "grid visibility", "title/label size", "figure resolution",
    "typesetting engine selection" }

\* C2 as stated: every key written into rcParams is of one of the listed
\* kinds of setting.
C2_OnlyListedKinds == \A k \in written : Category(k) \in ListedCategories

\* C2, amended: every key written into rcParams is of one of the listed
\* kinds of setting or is legend.fancybox (the legend's box style).
C2_ListedKindsOrFancybox ==
  \A k \in written : Category(k) \in ListedCategories \/ k = "legend.fancybox"

C2_Witness == pc = "done" /\ "legend.fancybox" \in written /\ "text.usetex" \in written

\* C3: params is constructed once and applied once; no execution has more
\* than one apply step, and nothing happens after the load has ended.
C3_AppliedOnceThenTerminal ==
  /\ nConstruct <= 1
  /\ nUpdate <= 1
  /\ pc \in Terminal => (nConstruct = 1 /\ nUpdate = 1 /\ ~ENABLED Next)

C3_Witness == pc = "done" /\ nUpdate = 1 /\ rcParams # pre

C5_ErrorPropagates ==
  pc \in Terminal =>
    /\ (pc = "raised") = (exc # "None")
    /\ (exc = "KeyError") = (\E k \in Keys(params) : k \notin validKeys)
    /\ exc \in {"None", "KeyError"}

C5_Witness == pc = "raised" /\ exc = "KeyError" /\ "axes.prop_cycle" \notin validKeys

\* C6: a key of rcParams that is not a key of params has the value it had
\* before the load.
C6_OtherKeysUntouched ==
  /\ DOMAIN rcParams = DOMAIN pre
  /\ \A k \in DOMAIN rcParams \ ParamKeys : rcParams[k] = pre[k]
  /\ ~Constructed => rcParams = pre

C6_Witness ==
  /\ pc = "done"
  /\ pre["lines.markersize"] = PyFloat(10, 1)
  /\ rcParams["lines.markersize"] = PyFloat(10, 1)
  /\ rcParams # pre

\* C7: applying params to the state the load has produced changes nothing:
\* twice is the same as once.
C7_Idempotent ==
  pc = "done" =>
    LET again == RcUpdate(rcParams, validKeys, params) IN
      again.exc = "None" /\ again.rc = rcParams

C7_Witness ==
  /\ pc = "done"
  /\ pre["font.serif"] = PyList(<<PyStr("Palatino")>>)
  /\ rcParams["font.serif"] = PyList(<<>>)

\* C8: the state after the load is the same from any two pre-load states
\* that agree outside the keys of params.
C8_Deterministic ==
  pc = "done" =>
    \A q \in PreStates(validKeys) :
      (\A k \in DOMAIN q \ Keys(params) : q[k] = pre[k])
        => RcUpdate(q, validKeys, params).rc = rcParams

C8_Witness ==
  /\ pc = "done"
  /\ pre["axes.grid"] = PyBool(TRUE)
  /\ pre["legend.frameon"] = PyBool(FALSE)
  /\ rcParams["axes.grid"] = PyBool(FALSE)

\* C9: no key occurs twice in the params literal: the dict has one key per
\* entry, 15 in all, each with the value of its own entry.
C9_KeysDistinct ==
  Constructed =>
    /\ Len(params.order) = Len(ParamsLiteral)
    /\ Cardinality(Keys(params)) = 15
    /\ \A i \in 1..Len(ParamsLiteral) :
         /\ params.order[i] = ParamsLiteral[i][1]
         /\ params.map[ParamsLiteral[i][1]] = ParamsLiteral[i][2]

C9_Witness == pc = "update" /\ nConstruct = 1 /\ Len(params.order) = 15

====
